---- MODULE Spec2Model ----
(***************************************************************************)
(* A model of src/main.py: the startup of AdvancedBot (main, setup_hook,   *)
(* load_extensions, on_ready), its two command-error handlers              *)
(* (on_command_error, on_app_command_error) and on_guild_join.             *)
(*                                                                         *)
(* The discord.py client is the environment.  What the model takes from    *)
(* it is its documented calling order: bot.start(token) logs in, awaits    *)
(* setup_hook, connects to the gateway and dispatches on_ready on every    *)
(* READY; an exception that leaves an event handler is handed to on_error. *)
(*                                                                         *)
(* Text is modelled by TLA+ strings built with \o, as the f-strings of the *)
(* source build it.  A TLA+ string cannot hold U+0060 (the backtick); BT   *)
(* stands for it.                                                          *)
(***************************************************************************)
EXTENDS Integers, Sequences, FiniteSets, TLC

VARIABLES
    envToken,     \* the process environment: DISCORD_TOKEN (unset, empty or a value)
    envLogin,     \* whether the platform accepts the login of bot.start
    envInterrupt, \* whether bot.start can be ended from outside in this run
    envLoadError, \* the exception class a failing load_extension raises in this run
    envTraffic,   \* what the platform sends the connected bot in this run:
                  \* "none", "commands" (command errors) or "joins" (guild joins)
    mainPc,       \* position of main / asyncio.run
    exc,          \* the exception bot.start ended with ("" when none)
    stdout,       \* what print wrote
    log,          \* the records the loggers emitted, in order
    startCalls,   \* calls of bot.start
    closeCalls,   \* calls of bot.close
    exitStatus,   \* the exit status of the process once mainPc = "exited"
    hook,         \* position of setup_hook
    modIdx,       \* index of the next module of load_extensions' loop
    attempts,     \* the load_extension calls made, in order
    loaded,       \* bot.extensions: the names loaded
    syncCalls,    \* calls of tree.sync
    syncResult,   \* how the last tree.sync ended ("" before it)
    phases,       \* the lifecycle states entered, in order
    gateway,      \* the connection: "down", "up" or "closed"
    readyPc,      \* position of the running on_ready ("idle" when none)
    readyCount,   \* READY events dispatched to on_ready
    guildCount,   \* len(bot.guilds) as on_ready last read it
    announced,    \* the status notifications on_ready built
    presence,     \* the presence last set (<< >> when none)
    presenceCalls,\* calls of change_presence
    escaped,      \* exceptions that left a handler, in order
    events,       \* the command-error events dispatched, by id
    responded,    \* per interaction: whether a response exists (response.is_done())
    sent,         \* the delivery attempts made, in order
    joins,        \* the guild-join events dispatched, by id
    joinSent      \* the channel.send calls of on_guild_join, in order

envVars == <<envToken, envLogin, envInterrupt, envLoadError, envTraffic>>
mainVars == <<mainPc, exc, stdout, startCalls, closeCalls, exitStatus>>
hookVars == <<hook, modIdx, attempts, loaded, syncCalls, syncResult>>
readyVars == <<readyPc, readyCount, guildCount, announced, presence, presenceCalls>>
errVars == <<events, responded, sent>>
joinVars == <<joins, joinSent>>
vars == <<envVars, mainVars, hookVars, readyVars, errVars, joinVars, phases, gateway, log,
          escaped>>

----------------------------------------------------------------------------
(* Bounds of the model. *)

\* READY events the gateway delivers in one run (reconnections re-enter Ready).
MaxReady == 2
\* Command-error events dispatched in one run.
MaxEvents == 2
\* Guild-join events dispatched in one run.
MaxJoins == 1
\* Text channels of a joined guild.
MaxChannels == 4

----------------------------------------------------------------------------
(* Text and exception classes. *)

\* Stands for the backtick of the source's f-string (line 138).
BT == "#"

\* The classes `except Exception` catches, among those the model raises.
ExceptionKinds == {"ExtensionFailed", "AssertionError", "HTTPException", "Forbidden",
                   "LoginFailure", "ConnectionClosed"}
\* BaseException subclasses that are no Exception.
BaseOnlyKinds == {"KeyboardInterrupt", "CancelledError"}

IsException(k) == k \in ExceptionKinds

\* One record of the log: the level, the logger's name and the message.
Info(name, msg) == [level |-> "INFO", name |-> name, msg |-> msg]
Error(name, msg) == [level |-> "ERROR", name |-> name, msg |-> msg]

----------------------------------------------------------------------------
(* main, up to bot.start *)

\* os.getenv returns None for an unset variable, else its value.
TokenValues == {[set |-> FALSE, value |-> ""],
                [set |-> TRUE, value |-> ""],
                [set |-> TRUE, value |-> "tok"]}

\* A variant of the test below: `token is None`.
TokenIsNone(t) == ~t.set
\* `not token`
TokenMissing(t) == ~t.set \/ t.value = ""

\* bot = AdvancedBot(): the intents are configured.
Construct ==
    /\ mainPc = "construct"
    /\ mainPc' = "getenv"
    /\ phases' = Append(phases, "Configuring")
    /\ UNCHANGED <<joinVars, envVars, exc, stdout, startCalls, closeCalls, exitStatus,
                   hookVars, readyVars, errVars, gateway, log, escaped>>

\* token = os.getenv(...); if not token: print(...); return
CheckToken ==
    /\ mainPc = "getenv"
    /\ IF TokenMissing(envToken)
       THEN /\ stdout' = Append(stdout, "Error: DISCORD_TOKEN environment variable not set!")
            /\ mainPc' = "returned"
       ELSE /\ mainPc' = "start"
            /\ UNCHANGED stdout
    /\ UNCHANGED <<joinVars, envVars, exc, startCalls, closeCalls, exitStatus,
                   hookVars, readyVars, errVars, phases, gateway, log, escaped>>

\* await bot.start(token): the call, up to the login.
BotStart ==
    /\ mainPc = "start"
    /\ startCalls' = startCalls + 1
    /\ mainPc' = "login"
    /\ UNCHANGED <<joinVars, envVars, exc, stdout, closeCalls, exitStatus,
                   hookVars, readyVars, errVars, phases, gateway, log, escaped>>

\* bot.start logs in; a refused login raises LoginFailure out of bot.start,
\* an accepted one goes on to setup_hook.
Login ==
    /\ mainPc = "login"
    /\ IF envLogin
       THEN /\ mainPc' = "running"
            /\ hook' = "begin"
            /\ UNCHANGED exc
       ELSE /\ mainPc' = "except"
            /\ exc' = "LoginFailure"
            /\ UNCHANGED hook
    /\ UNCHANGED <<joinVars, envVars, stdout, startCalls, closeCalls, exitStatus,
                   modIdx, attempts, loaded, syncCalls, syncResult,
                   readyVars, errVars, phases, gateway, log, escaped>>

----------------------------------------------------------------------------
(* setup_hook and load_extensions *)

\* The fixed list of load_extensions.
Modules == <<"cogs.moderation", "cogs.utility", "cogs.fun", "cogs.music",
             "cogs.economy", "cogs.admin">>

\* What a failing load_extension raises: the library's ExtensionFailed, whose
\* str() names the extension, or an exception of the import of the package
\* itself, which the library does not wrap: a bare `assert` there raises an
\* AssertionError whose str() is empty.
LoadFailureKinds == {"ExtensionFailed", "AssertionError"}

\* How one load_extension call ends: it returns or raises.
LoadOutcomes == {"ok"} \cup LoadFailureKinds

\* str(e) of the exception raised.
LoadErrorText(kind, m) ==
    IF kind = "AssertionError" THEN ""
    ELSE "Extension '" \o m \o "' raised an error: ImportError: missing dependency"

\* How tree.sync ends.
SyncOutcomes == {"ok", "HTTPException", "Forbidden"}

SyncErrorText(kind) ==
    IF kind = "Forbidden" THEN "403 Forbidden (error code: 50001): Missing Access"
    ELSE "503 Service Unavailable (error code: 0)"

\* Commands tree.sync returns when it succeeds.
SyncedCounts == {0, 5}

\* A variant of the handler below: no try around load_extension.
LoadCatchesNothing(kind) == FALSE
\* `except Exception as e` around load_extension (line 66).
LoadCatches(kind) == IsException(kind)

\* A variant of the handler below: no try around tree.sync.
SyncCatchesNothing(kind) == FALSE
\* `except Exception as e` around tree.sync (line 46).
SyncCatches(kind) == IsException(kind)

\* A variant of SetupHookBegin: setup_hook without its call of load_extensions.
SetupHookSkipsLoading ==
    /\ mainPc = "running"
    /\ hook = "begin"
    /\ log' = Append(log, Info("AdvancedBot", "Starting bot setup..."))
    /\ hook' = "syncing"
    /\ UNCHANGED <<joinVars, envVars, mainVars, modIdx, attempts, loaded, syncCalls, syncResult,
                   readyVars, errVars, phases, gateway, escaped>>

\* self.logger.info("Starting bot setup..."), then load_extensions is entered.
SetupHookBegin ==
    /\ mainPc = "running"
    /\ hook = "begin"
    /\ log' = Append(log, Info("AdvancedBot", "Starting bot setup..."))
    /\ hook' = "loading"
    /\ modIdx' = 1
    /\ phases' = Append(phases, "LoadingExtensions")
    /\ UNCHANGED <<joinVars, envVars, mainVars, attempts, loaded, syncCalls, syncResult,
                   readyVars, errVars, gateway, escaped>>

\* One iteration of `for module in modules`: the load_extension call, its log
\* line, and the step to the next module (or out of the loop after the last).
LoadExtension ==
    /\ mainPc = "running"
    /\ hook = "loading"
    /\ modIdx <= Len(Modules)
    /\ \E outcome \in {"ok", envLoadError} :
        LET m == Modules[modIdx] IN
        /\ attempts' = Append(attempts, m)
        /\ IF outcome = "ok"
           THEN /\ loaded' = loaded \cup {m}
                /\ log' = Append(log, Info("AdvancedBot", "Loaded " \o m))
                /\ modIdx' = modIdx + 1
                /\ hook' = IF modIdx = Len(Modules) THEN "syncing" ELSE "loading"
                /\ UNCHANGED <<mainPc, exc>>
           ELSE IF LoadCatches(outcome)
           THEN /\ log' = Append(log, Error("AdvancedBot",
                            "Failed to load " \o m \o ": " \o LoadErrorText(outcome, m)))
                /\ modIdx' = modIdx + 1
                /\ hook' = IF modIdx = Len(Modules) THEN "syncing" ELSE "loading"
                /\ UNCHANGED <<loaded, mainPc, exc>>
           ELSE \* the exception leaves load_extensions, setup_hook and bot.start
                /\ hook' = "raised"
                /\ exc' = outcome
                /\ mainPc' = "except"
                /\ UNCHANGED <<loaded, log, modIdx>>
    /\ UNCHANGED <<joinVars, envVars, stdout, startCalls, closeCalls, exitStatus, syncCalls,
                   syncResult, readyVars, errVars, phases, gateway, escaped>>

\* try: synced = await self.tree.sync() ... except Exception ..., then
\* self.logger.info("Bot setup completed!").
SyncCommands ==
    /\ mainPc = "running"
    /\ hook = "syncing"
    /\ syncCalls' = syncCalls + 1
    /\ phases' = Append(phases, "SyncingCommands")
    /\ \E outcome \in SyncOutcomes, n \in SyncedCounts :
        /\ outcome # "ok" => n = 0
        /\ syncResult' = outcome
        /\ IF outcome = "ok"
           THEN /\ log' = log \o <<Info("AdvancedBot", "Synced " \o ToString(n) \o " command(s)"),
                                   Info("AdvancedBot", "Bot setup completed!")>>
                /\ hook' = "done"
                /\ UNCHANGED <<mainPc, exc>>
           ELSE IF SyncCatches(outcome)
           THEN /\ log' = log \o <<Error("AdvancedBot",
                                     "Failed to sync commands: " \o SyncErrorText(outcome)),
                                   Info("AdvancedBot", "Bot setup completed!")>>
                /\ hook' = "done"
                /\ UNCHANGED <<mainPc, exc>>
           ELSE /\ hook' = "raised"
                /\ exc' = outcome
                /\ mainPc' = "except"
                /\ UNCHANGED log
    /\ UNCHANGED <<joinVars, envVars, stdout, startCalls, closeCalls, exitStatus, modIdx,
                   attempts, loaded, readyVars, errVars, gateway, escaped>>

\* bot.start connects to the gateway once setup_hook has returned.
Connect ==
    /\ mainPc = "running"
    /\ hook = "done"
    /\ gateway = "down"
    /\ gateway' = "up"
    /\ UNCHANGED <<joinVars, envVars, mainVars, hookVars, readyVars, errVars, phases, log, escaped>>

----------------------------------------------------------------------------
(* on_ready and on_error *)

\* self.user.name of the connected client.
BotName == "Aequitas"
\* len(self.guilds), len(self.users) and round(self.latency * 1000) as the
\* connected client reports them.
GuildCounts == {1, 3}
UserCount == 10
LatencyMs == 42
\* color=0x00ff00
ColorSuccess == 65280

\* How change_presence ends.
PresenceOutcomes == {"ok", "ConnectionClosed"}

\* The embed on_ready builds (the glyph of the title is left out of the text).
ReadyEmbed(guilds) ==
    [title |-> "Bot Online",
     description |-> "**" \o BotName \o "** is now online and ready!",
     color |-> ColorSuccess,
     fields |-> <<[name |-> "Servers", value |-> ToString(guilds), inline |-> TRUE],
                  [name |-> "Users", value |-> ToString(UserCount), inline |-> TRUE],
                  [name |-> "Latency", value |-> ToString(LatencyMs) \o "ms", inline |-> TRUE]>>]

\* discord.Activity(type=watching, name=f"{len(self.guilds)} servers")
WatchingActivity(guilds) == [type |-> "watching", name |-> ToString(guilds) \o " servers"]

\* on_error: one error record naming the event and the traceback.
OnErrorRecord(event, kind) ==
    Error("AdvancedBot", "Error in event " \o event \o ": " \o kind)

\* A variant of on_ready that announces the first READY of a run only.
OnReadyAnnouncesOnce ==
    /\ mainPc = "running"
    /\ gateway = "up"
    /\ readyPc = "idle"
    /\ readyCount < MaxReady
    /\ readyCount' = readyCount + 1
    /\ phases' = Append(phases, "Ready")
    /\ \E g \in GuildCounts :
        /\ guildCount' = g
        /\ announced' = IF readyCount = 0 THEN Append(announced, ReadyEmbed(g))
                        ELSE announced
    /\ log' = IF readyCount = 0
              THEN Append(log, Info("AdvancedBot", "Bot is ready! Logged in as " \o BotName))
              ELSE log
    /\ presenceCalls' = presenceCalls + 1
    /\ readyPc' = "presence"
    /\ UNCHANGED <<joinVars, envVars, mainVars, hookVars, presence, errVars, gateway, escaped>>

\* on_ready up to its await: the embed is built, the readiness is logged and
\* change_presence is called.
OnReady ==
    /\ mainPc = "running"
    /\ gateway = "up"
    /\ readyPc = "idle"
    /\ readyCount < MaxReady
    /\ readyCount' = readyCount + 1
    /\ phases' = Append(phases, "Ready")
    /\ \E g \in GuildCounts :
        /\ guildCount' = g
        /\ announced' = Append(announced, ReadyEmbed(g))
    /\ log' = Append(log, Info("AdvancedBot", "Bot is ready! Logged in as " \o BotName))
    /\ presenceCalls' = presenceCalls + 1
    /\ readyPc' = "presence"
    /\ UNCHANGED <<joinVars, envVars, mainVars, hookVars, presence, errVars, gateway, escaped>>

\* change_presence returns or raises; on_ready has no handler around it, so what
\* it raises leaves on_ready and the client hands it to on_error.
PresenceReturns ==
    /\ mainPc = "running"
    /\ readyPc = "presence"
    /\ readyPc' = "idle"
    /\ \E outcome \in PresenceOutcomes :
        IF outcome = "ok"
        THEN /\ presence' = <<WatchingActivity(guildCount)>>
             /\ UNCHANGED <<escaped, log>>
        ELSE /\ escaped' = Append(escaped, [handler |-> "on_ready", kind |-> outcome])
             /\ log' = Append(log, OnErrorRecord("on_ready", outcome))
             /\ UNCHANGED presence
    /\ UNCHANGED <<joinVars, envVars, mainVars, hookVars, readyCount, guildCount, announced,
                   presenceCalls, errVars, phases, gateway>>

----------------------------------------------------------------------------
(* main: how bot.start ends, and the exit of the process *)

\* What can end a running bot.start from outside: Ctrl-C, the cancellation of
\* the main task, a lost connection.
StartEndKinds == {"KeyboardInterrupt", "CancelledError", "ConnectionClosed"}

Interrupt ==
    /\ envInterrupt
    /\ mainPc = "running"
    /\ mainPc' = "except"
    /\ \E k \in StartEndKinds : exc' = k
    /\ hook' = IF hook = "done" THEN hook ELSE "aborted"
    /\ readyPc' = IF readyPc = "idle" THEN readyPc ELSE "cancelled"
    /\ UNCHANGED <<joinVars, envVars, stdout, startCalls, closeCalls, exitStatus, modIdx,
                   attempts, loaded, syncCalls, syncResult, readyCount, guildCount,
                   announced, presence, presenceCalls, errVars, phases, gateway, log,
                   escaped>>

\* except KeyboardInterrupt: await bot.close()
\* except Exception as e: logging.error(...); await bot.close()
\* Anything else leaves main.
MainExcept ==
    /\ mainPc = "except"
    /\ IF exc = "KeyboardInterrupt"
       THEN /\ closeCalls' = closeCalls + 1
            /\ gateway' = "closed"
            /\ mainPc' = "returned"
            /\ UNCHANGED log
       ELSE IF IsException(exc)
       THEN /\ log' = Append(log, Error("root", "Fatal error: " \o exc))
            /\ closeCalls' = closeCalls + 1
            /\ gateway' = "closed"
            /\ mainPc' = "returned"
       ELSE /\ mainPc' = "raised"
            /\ UNCHANGED <<closeCalls, gateway, log>>
    /\ UNCHANGED <<joinVars, envVars, exc, stdout, startCalls, exitStatus, hookVars, readyVars,
                   errVars, phases, escaped>>

\* asyncio.run(main()): the process ends with status 0 when main returned, and
\* with a non-zero status when an exception left it.
ExitStatusOf(pc) == IF pc = "returned" THEN 0 ELSE 1

ProcessExit ==
    /\ mainPc \in {"returned", "raised"}
    /\ exitStatus' = ExitStatusOf(mainPc)
    /\ mainPc' = "exited"
    /\ UNCHANGED <<joinVars, envVars, exc, stdout, startCalls, closeCalls, hookVars, readyVars,
                   errVars, phases, gateway, log, escaped>>

----------------------------------------------------------------------------
(* The command-error events and the text of their notifications *)

\* color=0xff0000
ColorError == 16711680

\* The error classes on_command_error tells apart, by the spec's names:
\* CommandNotFound, MissingPermissions, BotMissingPermissions, CommandOnCooldown,
\* MissingRequiredArgument, BadArgument, and any other CommandError.
LegacyKinds == {"NotFound", "MissingUserPermission", "MissingAgentPermission",
                "OnCooldown", "MissingArgument", "BadArgument", "Unexpected"}
\* The classes on_app_command_error tells apart.
InteractionKinds == {"MissingUserPermission", "MissingAgentPermission", "OnCooldown",
                     "Unexpected"}

\* error.retry_after, in eighths of a second (exact as binary floats).
RetryAfters == {1, 12}
\* error.param.name
ParamNames == {"member", "reason"}
\* str(error) of an error of no known class.
Details == {"division by zero", "token=s3cr3t"}
\* str(ctx.command)
CommandName == "ban"

TwoDigits(d) == IF d < 10 THEN "0" \o ToString(d) ELSE ToString(d)

\* f"{x:.2f}" of x = n/8: the nearest hundredth, a tie going to the even one,
\* written with two decimals.
FormatF2(n) ==
    LET q == (100 * n) \div 8
        rem == (100 * n) % 8
        h == IF 2 * rem > 8 \/ (2 * rem = 8 /\ q % 2 = 1) THEN q + 1 ELSE q
    IN ToString(h \div 100) \o "." \o TwoDigits(h % 100)

\* traceback.format_exc() where no exception is being handled.
NoTraceback == "NoneType: None"

\* A variant of LegacyDescription whose else branch shows the detail.
LegacyDescriptionLeaks(kind, retry, text) ==
    IF kind = "MissingUserPermission" THEN "You don't have permission to use this command."
    ELSE IF kind = "MissingAgentPermission"
    THEN "I don't have the required permissions to execute this command."
    ELSE IF kind = "OnCooldown"
    THEN "Command is on cooldown. Try again in " \o FormatF2(retry) \o " seconds."
    ELSE IF kind = "MissingArgument" THEN "Missing required argument: " \o BT \o text \o BT
    ELSE IF kind = "BadArgument" THEN "Invalid argument provided."
    ELSE "An unexpected error occurred: " \o text

\* embed.description of on_command_error (the if/elif chain of lines 131-142).
LegacyDescription(kind, retry, text) ==
    IF kind = "MissingUserPermission" THEN "You don't have permission to use this command."
    ELSE IF kind = "MissingAgentPermission"
    THEN "I don't have the required permissions to execute this command."
    ELSE IF kind = "OnCooldown"
    THEN "Command is on cooldown. Try again in " \o FormatF2(retry) \o " seconds."
    ELSE IF kind = "MissingArgument" THEN "Missing required argument: " \o BT \o text \o BT
    ELSE IF kind = "BadArgument" THEN "Invalid argument provided."
    ELSE "An unexpected error occurred."

\* embed.description of on_app_command_error (lines 159-166).
AppDescription(kind, retry, text) ==
    IF kind = "MissingUserPermission" THEN "You don't have permission to use this command."
    ELSE IF kind = "MissingAgentPermission"
    THEN "I don't have the required permissions to execute this command."
    ELSE IF kind = "OnCooldown"
    THEN "Command is on cooldown. Try again in " \o FormatF2(retry) \o " seconds."
    ELSE "An unexpected error occurred."

\* The error embed of either handler (the glyph of the title is left out).
ErrorEmbed(description) ==
    [title |-> "Command Error", description |-> description, color |-> ColorError]

\* What the else branch logs: lines 143-144 and 167-168.
LegacyUnexpectedLog(text) ==
    <<Error("AdvancedBot", "Unexpected error in command " \o CommandName \o ": " \o text),
      Error("AdvancedBot", NoTraceback)>>
AppUnexpectedLog(text) ==
    <<Error("AdvancedBot", "Unexpected error in slash command: " \o text),
      Error("AdvancedBot", NoTraceback)>>

\* A variant of the test below: no early return.
IgnoresNothing(kind) == FALSE
\* A variant of the test below: errors of the user's input return early too.
IgnoresBadInput(kind) == kind \in {"NotFound", "MissingArgument", "BadArgument"}
\* `if isinstance(error, commands.CommandNotFound): return`
LegacyIgnores(kind) == kind = "NotFound"

\* A variant of the handlers below: `except discord.Forbidden:`.
CatchesForbiddenOnly(kind) == kind = "Forbidden"
\* The bare `except:` around ctx.send (line 148) and around the interaction's
\* send (line 175): every exception is caught.
LegacySendCatches(kind) == TRUE
AppSendCatches(kind) == TRUE

\* How a send ends: it returns, the platform refuses it, or the handler's task
\* is cancelled while it waits.
SendOutcomes == {"ok", "Forbidden", "CancelledError"}

\* The events a run can see.  An event's origin (its ctx or its interaction) is
\* its own: the event's index stands for it.
EventShapes ==
    {[kind |-> k, retry |-> 0, text |-> ""] :
        k \in {"NotFound", "MissingUserPermission", "MissingAgentPermission", "BadArgument"}}
    \cup {[kind |-> "OnCooldown", retry |-> r, text |-> ""] : r \in RetryAfters}
    \cup {[kind |-> "MissingArgument", retry |-> 0, text |-> p] : p \in ParamNames}
    \cup {[kind |-> "Unexpected", retry |-> 0, text |-> d] : d \in Details}

NewEvent(path, shape) ==
    [path |-> path, kind |-> shape.kind, retry |-> shape.retry, text |-> shape.text,
     pc |-> "pending", result |-> ""]

\* A prefix command failed: the client schedules on_command_error(ctx, error).
DispatchLegacy ==
    /\ envTraffic = "commands"
    /\ mainPc = "running"
    /\ gateway = "up"
    /\ Len(events) < MaxEvents
    /\ \E shape \in EventShapes :
        /\ shape.kind \in LegacyKinds
        /\ events' = Append(events, NewEvent("legacy", shape))
    /\ responded' = Append(responded, FALSE)
    /\ UNCHANGED <<joinVars, envVars, mainVars, hookVars, readyVars, sent, phases, gateway, log,
                   escaped>>

\* A slash command failed: on_app_command_error(interaction, error) is scheduled.
\* Its interaction has no response yet; ResponseChanges gives it one.
DispatchInteraction ==
    /\ envTraffic = "commands"
    /\ mainPc = "running"
    /\ gateway = "up"
    /\ Len(events) < MaxEvents
    /\ \E shape \in EventShapes :
        /\ shape.kind \in InteractionKinds
        /\ events' = Append(events, NewEvent("interaction", shape))
    /\ responded' = Append(responded, FALSE)
    /\ UNCHANGED <<joinVars, envVars, mainVars, hookVars, readyVars, sent, phases, gateway, log,
                   escaped>>

\* The command's own code produces a response (a deferral completes) before the
\* handler has run.
ResponseChanges ==
    /\ \E i \in 1..Len(events) :
        /\ events[i].path = "interaction"
        /\ events[i].pc = "pending"
        /\ ~responded[i]
        /\ responded' = [responded EXCEPT ![i] = TRUE]
    /\ UNCHANGED <<joinVars, envVars, mainVars, hookVars, readyVars, events, sent, phases, gateway,
                   log, escaped>>

\* A variant of on_command_error that formats the error most recently
\* dispatched, as a handler would that read the error from an attribute of the
\* bot which every dispatch overwrites.
OnCommandErrorSharesLast ==
    /\ \E i \in 1..Len(events) :
        LET ev == events[i]
            last == events[Len(events)]
        IN
        /\ ev.path = "legacy"
        /\ ev.pc = "pending"
        /\ IF LegacyIgnores(ev.kind)
           THEN /\ events' = [events EXCEPT ![i].pc = "done"]
                /\ UNCHANGED <<sent, log>>
           ELSE /\ events' = [events EXCEPT ![i].pc = "sending"]
                /\ log' = IF ev.kind \in {"MissingUserPermission", "MissingAgentPermission",
                                          "OnCooldown", "MissingArgument", "BadArgument"}
                          THEN log
                          ELSE log \o LegacyUnexpectedLog(ev.text)
                /\ sent' = Append(sent,
                       [event |-> i, via |-> "ctx.send", ephemeral |-> TRUE,
                        embed |-> ErrorEmbed(LegacyDescription(last.kind, last.retry,
                                                               last.text))])
    /\ UNCHANGED <<joinVars, envVars, mainVars, hookVars, readyVars, responded, phases, gateway,
                   escaped>>

\* on_command_error up to its await: the early return for CommandNotFound, else
\* the embed, the log of the else branch and the call of ctx.send.
OnCommandError ==
    /\ \E i \in 1..Len(events) :
        LET ev == events[i] IN
        /\ ev.path = "legacy"
        /\ ev.pc = "pending"
        /\ IF LegacyIgnores(ev.kind)
           THEN /\ events' = [events EXCEPT ![i].pc = "done"]
                /\ UNCHANGED <<sent, log>>
           ELSE /\ events' = [events EXCEPT ![i].pc = "sending"]
                /\ log' = IF ev.kind \in {"MissingUserPermission", "MissingAgentPermission",
                                          "OnCooldown", "MissingArgument", "BadArgument"}
                          THEN log
                          ELSE log \o LegacyUnexpectedLog(ev.text)
                /\ sent' = Append(sent,
                       [event |-> i, via |-> "ctx.send", ephemeral |-> TRUE,
                        embed |-> ErrorEmbed(LegacyDescription(ev.kind, ev.retry, ev.text))])
    /\ UNCHANGED <<joinVars, envVars, mainVars, hookVars, readyVars, responded, phases, gateway,
                   escaped>>

\* A variant of the test below: the primary response is always chosen.
ResponseNeverDone(i) == FALSE
\* interaction.response.is_done(), read inside the try right before the send.
ResponseIsDone(i) == responded[i]

\* A variant of on_app_command_error that logs the error of every event, the
\* classified ones included.
OnAppCommandErrorLogsAll ==
    /\ \E i \in 1..Len(events) :
        LET ev == events[i] IN
        /\ ev.path = "interaction"
        /\ ev.pc = "pending"
        /\ events' = [events EXCEPT ![i].pc = "sending"]
        /\ log' = log \o AppUnexpectedLog(ev.text)
        /\ sent' = Append(sent,
               [event |-> i,
                via |-> IF ResponseIsDone(i) THEN "followup.send" ELSE "response.send_message",
                ephemeral |-> TRUE,
                embed |-> ErrorEmbed(AppDescription(ev.kind, ev.retry, ev.text))])
    /\ UNCHANGED <<joinVars, envVars, mainVars, hookVars, readyVars, responded, phases, gateway,
                   escaped>>

\* on_app_command_error up to its await: the embed, the log of the else branch,
\* and the send chosen by is_done().
OnAppCommandError ==
    /\ \E i \in 1..Len(events) :
        LET ev == events[i] IN
        /\ ev.path = "interaction"
        /\ ev.pc = "pending"
        /\ events' = [events EXCEPT ![i].pc = "sending"]
        /\ log' = IF ev.kind \in {"MissingUserPermission", "MissingAgentPermission",
                                  "OnCooldown"}
                  THEN log
                  ELSE log \o AppUnexpectedLog(ev.text)
        /\ sent' = Append(sent,
               [event |-> i,
                via |-> IF ResponseIsDone(i) THEN "followup.send" ELSE "response.send_message",
                ephemeral |-> TRUE,
                embed |-> ErrorEmbed(AppDescription(ev.kind, ev.retry, ev.text))])
    /\ UNCHANGED <<joinVars, envVars, mainVars, hookVars, readyVars, responded, phases, gateway,
                   escaped>>

\* A variant of the end of the send in which a handler whose send failed runs
\* again and sends again.
SendReturnsRetries ==
    /\ \E i \in 1..Len(events), outcome \in SendOutcomes :
        LET ev == events[i]
            handler == IF ev.path = "legacy" THEN "on_command_error"
                       ELSE "on_app_command_error"
            caught == IF ev.path = "legacy" THEN LegacySendCatches(outcome)
                      ELSE AppSendCatches(outcome)
            primary == \E k \in 1..Len(sent) :
                          sent[k].event = i /\ sent[k].via = "response.send_message"
        IN
        /\ ev.pc = "sending"
        /\ events' = [events EXCEPT ![i].pc = IF outcome = "ok" THEN "done" ELSE "pending",
                                      ![i].result = IF outcome = "ok" THEN "ok" ELSE "failed"]
        /\ responded' = IF outcome = "ok" /\ primary
                        THEN [responded EXCEPT ![i] = TRUE] ELSE responded
        /\ IF outcome = "ok" \/ caught
           THEN UNCHANGED <<escaped, log>>
           ELSE /\ escaped' = Append(escaped, [handler |-> handler, kind |-> outcome])
                /\ log' = IF IsException(outcome)
                          THEN Append(log, OnErrorRecord(handler, outcome))
                          ELSE log
    /\ UNCHANGED <<joinVars, envVars, mainVars, hookVars, readyVars, sent, phases, gateway>>

\* The awaited send ends.  What it raises is caught by the bare except and
\* dropped; were it not caught it would leave the handler, and the client hands
\* an Exception that leaves a handler to on_error.
SendReturns ==
    /\ \E i \in 1..Len(events), outcome \in SendOutcomes :
        LET ev == events[i]
            handler == IF ev.path = "legacy" THEN "on_command_error"
                       ELSE "on_app_command_error"
            caught == IF ev.path = "legacy" THEN LegacySendCatches(outcome)
                      ELSE AppSendCatches(outcome)
            primary == \E k \in 1..Len(sent) :
                          sent[k].event = i /\ sent[k].via = "response.send_message"
        IN
        /\ ev.pc = "sending"
        /\ events' = [events EXCEPT ![i].pc = "done",
                                      ![i].result = IF outcome = "ok" THEN "ok" ELSE "failed"]
        /\ responded' = IF outcome = "ok" /\ primary
                        THEN [responded EXCEPT ![i] = TRUE] ELSE responded
        /\ IF outcome = "ok" \/ caught
           THEN UNCHANGED <<escaped, log>>
           ELSE /\ escaped' = Append(escaped, [handler |-> handler, kind |-> outcome])
                /\ log' = IF IsException(outcome)
                          THEN Append(log, OnErrorRecord(handler, outcome))
                          ELSE log
    /\ UNCHANGED <<joinVars, envVars, mainVars, hookVars, readyVars, sent, phases, gateway>>

----------------------------------------------------------------------------
(* The startup of the process *)

Init ==
    /\ envToken \in TokenValues
    /\ envLogin \in BOOLEAN
    /\ envInterrupt \in BOOLEAN
    /\ envLoadError \in LoadFailureKinds
    /\ envTraffic = "none"
    /\ mainPc = "construct"
    /\ exc = ""
    /\ stdout = << >>
    /\ log = << >>
    /\ startCalls = 0
    /\ closeCalls = 0
    /\ exitStatus = 0
    /\ hook = "idle"
    /\ modIdx = 1
    /\ attempts = << >>
    /\ loaded = {}
    /\ syncCalls = 0
    /\ syncResult = ""
    /\ phases = << >>
    /\ gateway = "down"
    /\ readyPc = "idle"
    /\ readyCount = 0
    /\ guildCount = 0
    /\ announced = << >>
    /\ presence = << >>
    /\ presenceCalls = 0
    /\ escaped = << >>
    /\ events = << >>
    /\ responded = << >>
    /\ sent = << >>
    /\ joins = << >>
    /\ joinSent = << >>

Next ==
    \/ Construct
    \/ CheckToken
    \/ BotStart
    \/ Login
    \/ SetupHookBegin
    \/ LoadExtension
    \/ SyncCommands
    \/ Connect
    \/ OnReady
    \/ PresenceReturns
    \/ Interrupt
    \/ MainExcept
    \/ ProcessExit

Spec == Init /\ [][Next]_vars

----------------------------------------------------------------------------
(* The command-error handlers of a connected bot *)

\* The log of a startup in which every module loaded and the sync succeeded.
CleanStartupLog ==
    <<Info("AdvancedBot", "Starting bot setup...")>>
    \o [i \in 1..Len(Modules) |-> Info("AdvancedBot", "Loaded " \o Modules[i])]
    \o <<Info("AdvancedBot", "Synced 5 command(s)"),
         Info("AdvancedBot", "Bot setup completed!")>>

\* The log of a bot that started cleanly and handled its READY events.
ConnectedLog ==
    CleanStartupLog
    \o [i \in 1..MaxReady |->
            Info("AdvancedBot", "Bot is ready! Logged in as " \o BotName)]

\* A bot that started cleanly, is connected and has handled the READY events of
\* the run: the state Spec reaches by Construct, CheckToken, BotStart, Login,
\* SetupHookBegin, six LoadExtension steps, SyncCommands, Connect and MaxReady
\* rounds of OnReady and PresenceReturns, but for the traffic that follows.
ConnectedBot ==
    /\ envToken = [set |-> TRUE, value |-> "tok"]
    /\ envLogin = TRUE
    /\ envInterrupt = FALSE
    /\ envLoadError = "ExtensionFailed"
    /\ mainPc = "running"
    /\ exc = ""
    /\ stdout = << >>
    /\ log = ConnectedLog
    /\ startCalls = 1
    /\ closeCalls = 0
    /\ exitStatus = 0
    /\ hook = "done"
    /\ modIdx = Len(Modules) + 1
    /\ attempts = Modules
    /\ loaded = {Modules[i] : i \in 1..Len(Modules)}
    /\ syncCalls = 1
    /\ syncResult = "ok"
    /\ phases = <<"Configuring", "LoadingExtensions", "SyncingCommands">>
                \o [i \in 1..MaxReady |-> "Ready"]
    /\ gateway = "up"
    /\ readyPc = "idle"
    /\ readyCount = MaxReady
    /\ guildCount = 1
    /\ announced = [i \in 1..MaxReady |-> ReadyEmbed(1)]
    /\ presence = <<WatchingActivity(1)>>
    /\ presenceCalls = MaxReady
    /\ escaped = << >>
    /\ events = << >>
    /\ responded = << >>
    /\ sent = << >>
    /\ joins = << >>
    /\ joinSent = << >>

\* The connected bot when command errors follow.
Connected == ConnectedBot /\ envTraffic = "commands"

InitErr == Connected

NextErr ==
    \/ DispatchLegacy
    \/ DispatchInteraction
    \/ ResponseChanges
    \/ OnCommandError
    \/ OnAppCommandError
    \/ SendReturns

ErrSpec == InitErr /\ [][NextErr]_vars

\* Fairness: the event loop runs every handler that was scheduled up to its
\* await, and every awaited send ends; nothing obliges the platform to send
\* further events.
HandlerProgress ==
    \/ OnCommandError
    \/ OnAppCommandError
    \/ SendReturns

ErrLiveSpec == InitErr /\ [][NextErr]_vars /\ WF_vars(HandlerProgress)

\* Spec reaches the state ErrSpec starts from, up to the traffic.
NotConnected == ~(ConnectedBot /\ envTraffic = "none")

----------------------------------------------------------------------------
(* on_guild_join of a connected bot *)

\* guild.text_channels, in the platform's order: per channel, whether
\* ch.permissions_for(guild.me).send_messages holds.
ChannelLists == UNION {[1..n -> BOOLEAN] : n \in 0..MaxChannels}

\* guild.name and guild.member_count of the guild whose id is given.
GuildName(id) == "Guild" \o ToString(id)
MemberCount == 5

\* The embed on_guild_join builds (lines 94-103; the title without its glyph).
JoinEmbed(id) ==
    [title |-> "Joined New Server!",
     description |-> "Thanks for adding me to **" \o GuildName(id) \o "**!",
     color |-> ColorSuccess,
     fields |-> <<[name |-> "Server Name", value |-> GuildName(id), inline |-> TRUE],
                  [name |-> "Member Count", value |-> ToString(MemberCount), inline |-> TRUE],
                  [name |-> "Server ID", value |-> ToString(id), inline |-> TRUE]>>]

\* logger.info(f"Joined guild: {guild.name} (ID: {guild.id})")
JoinLog(id) ==
    Info("AdvancedBot", "Joined guild: " \o GuildName(id) \o " (ID: " \o ToString(id) \o ")")

\* A variant of the loop of lines 107-110 without its break: the last channel
\* the bot may send to.
RECURSIVE ScanNoBreak(_, _, _)
ScanNoBreak(perms, i, found) ==
    IF i > Len(perms) THEN found
    ELSE ScanNoBreak(perms, i + 1, IF perms[i] THEN i ELSE found)

\* The loop of lines 107-110 from channel i on: the index of the channel
\* chosen, 0 for None.
RECURSIVE ScanFrom(_, _)
ScanFrom(perms, i) ==
    IF i > Len(perms) THEN 0
    ELSE IF perms[i] THEN i
    ELSE ScanFrom(perms, i + 1)

\* A variant of the scan that keeps the last channel found.
LastSendable(perms) == ScanNoBreak(perms, 1, 0)

\* channel after the loop.
FirstSendable(perms) == ScanFrom(perms, 1)

\* How the awaited channel.send ends: it returns, or raises Forbidden (the
\* permission was withdrawn after the scan) or another HTTPException (the
\* platform rejected or failed the request).
JoinSendOutcomes == {"ok", "Forbidden", "HTTPException"}

\* except discord.Forbidden (line 115).
JoinSendCatches(kind) == kind = "Forbidden"

\* The platform dispatches a guild join to on_guild_join.
GuildJoin ==
    /\ envTraffic = "joins"
    /\ mainPc = "running"
    /\ gateway = "up"
    /\ Len(joins) < MaxJoins
    /\ \E perms \in ChannelLists :
        joins' = Append(joins, [id |-> Len(joins) + 1, perms |-> perms,
                                pc |-> "pending", result |-> ""])
    /\ UNCHANGED <<joinSent, envVars, mainVars, hookVars, readyVars, errVars, phases, gateway,
                   log, escaped>>

\* on_guild_join up to its await: the embed is built and the channels are
\* scanned; without a channel nothing is sent and the join is logged at once,
\* with one channel.send is called.
OnGuildJoin ==
    /\ \E j \in 1..Len(joins) :
        LET ch == FirstSendable(joins[j].perms) IN
        /\ joins[j].pc = "pending"
        /\ IF ch = 0
           THEN /\ joins' = [joins EXCEPT ![j].pc = "done", ![j].result = "none"]
                /\ log' = Append(log, JoinLog(joins[j].id))
                /\ UNCHANGED joinSent
           ELSE /\ joins' = [joins EXCEPT ![j].pc = "sending"]
                /\ joinSent' = Append(joinSent, [join |-> j, channel |-> ch,
                                                 embed |-> JoinEmbed(joins[j].id)])
                /\ UNCHANGED log
    /\ UNCHANGED <<envVars, mainVars, hookVars, readyVars, errVars, phases, gateway, escaped>>

\* The awaited channel.send ends.  When it returns, or raises what line 115
\* catches, on_guild_join goes on to its last line and logs the join; anything
\* else it raises leaves on_guild_join before that line, and the client hands
\* it to on_error.
JoinSendReturns ==
    /\ \E j \in 1..Len(joins), outcome \in JoinSendOutcomes :
        /\ joins[j].pc = "sending"
        /\ joins' = [joins EXCEPT ![j].pc = "done", ![j].result = outcome]
        /\ IF outcome = "ok" \/ JoinSendCatches(outcome)
           THEN /\ log' = Append(log, JoinLog(joins[j].id))
                /\ UNCHANGED escaped
           ELSE /\ escaped' = Append(escaped, [handler |-> "on_guild_join", kind |-> outcome])
                /\ log' = Append(log, OnErrorRecord("on_guild_join", outcome))
    /\ UNCHANGED <<joinSent, envVars, mainVars, hookVars, readyVars, errVars, phases, gateway>>

\* The connected bot when guild joins follow.
InitJoin == ConnectedBot /\ envTraffic = "joins"

NextJoin ==
    \/ GuildJoin
    \/ OnGuildJoin
    \/ JoinSendReturns

JoinSpec == InitJoin /\ [][NextJoin]_vars

----------------------------------------------------------------------------
(* The whole program: a run from the start of the process, or the traffic of *)
(* a connected bot, command errors or guild joins.                           *)

InitAll == Init \/ InitErr \/ InitJoin

NextAll == Next \/ NextErr \/ NextJoin

AllSpec == InitAll /\ [][NextAll]_vars

----------------------------------------------------------------------------
(* Fairness: the event loop runs every step of main and of the handlers that *)
(* is ready to run; nothing obliges the outside to interrupt the run.        *)

Progress ==
    \/ Construct
    \/ CheckToken
    \/ BotStart
    \/ Login
    \/ SetupHookBegin
    \/ LoadExtension
    \/ SyncCommands
    \/ Connect
    \/ OnReady
    \/ PresenceReturns
    \/ MainExcept
    \/ ProcessExit

LiveSpec == Init /\ [][Next]_vars /\ WF_vars(Progress)

----------------------------------------------------------------------------
(* Properties *)

IsPrefix(s, t) == Len(s) <= Len(t) /\ \A i \in 1..Len(s) : s[i] = t[i]

Logged(record) == \E k \in 1..Len(log) : log[k] = record

\* DISCORD_TOKEN is unset or empty.
CredentialAbsent == envToken.set = FALSE \/ envToken.value = ""

\* C1: load_extensions attempts the six modules once each, in the fixed order,
\* whichever of them fail to load: after a failed load the loop is at the next
\* module, the loop is left only after the sixth attempt (or when the run is
\* ended from outside), and no load failure leaves load_extensions.
C1_EveryModuleAttempted ==
    /\ IsPrefix(attempts, Modules)
    /\ hook = "loading" => modIdx = Len(attempts) + 1 /\ modIdx <= Len(Modules)
    /\ hook \in {"syncing", "done"} => attempts = Modules
    /\ hook # "raised"
    /\ exc \notin (LoadOutcomes \ {"ok"})
    /\ hook = "aborted" => exc \in StartEndKinds

\* C1's case: the first, second, fourth and fifth modules failed, and all six
\* were attempted.
C1_Witness ==
    /\ attempts = Modules
    /\ loaded = {"cogs.fun", "cogs.admin"}
    /\ hook = "syncing"

ExpectedPhase(i) ==
    IF i = 1 THEN "Configuring"
    ELSE IF i = 2 THEN "LoadingExtensions"
    ELSE IF i = 3 THEN "SyncingCommands"
    ELSE "Ready"

\* C2: the lifecycle states are entered in the order Configuring,
\* LoadingExtensions, SyncingCommands, Ready with none skipped; tree.sync is
\* called only after the sixth load attempt; on_ready runs only after all six
\* attempts and after the one sync returned or its failure was logged.
C2_LifecycleOrder ==
    /\ \A i \in 1..Len(phases) : phases[i] = ExpectedPhase(i)
    /\ syncCalls > 0 => attempts = Modules
    /\ syncCalls <= 1
    /\ readyCount > 0 =>
          /\ attempts = Modules
          /\ syncCalls = 1
          /\ hook = "done"
          /\ \/ syncResult = "ok"
             \/ Logged(Error("AdvancedBot",
                             "Failed to sync commands: " \o SyncErrorText(syncResult)))

\* C2's case: Ready entered twice after a startup whose sync failed.
C2_Witness ==
    /\ readyCount = 2
    /\ syncResult = "Forbidden"
    /\ phases = <<"Configuring", "LoadingExtensions", "SyncingCommands", "Ready", "Ready">>

ReadyAnnounced ==
    /\ readyCount > 0
    /\ Len(announced) > 0
    /\ Logged(Info("AdvancedBot", "Bot is ready! Logged in as " \o BotName))

\* C3: with the credential present, the login accepted and the run not ended
\* from outside, the lifecycle reaches Ready and the readiness is announced
\* and logged, whichever loads fail and also when the sync raises; a sync
\* that raised is logged at error severity and setup_hook completes.
C3_ReadyDespiteFailures ==
    (~CredentialAbsent /\ envLogin /\ ~envInterrupt)
        ~> /\ ReadyAnnounced
           /\ hook = "done"
           /\ Logged(Info("AdvancedBot", "Bot setup completed!"))
           /\ syncResult # "ok" =>
                 Logged(Error("AdvancedBot",
                              "Failed to sync commands: " \o SyncErrorText(syncResult)))

\* C3's case: every load failed, the sync raised, and Ready was announced.
C3_Witness ==
    /\ ~envInterrupt
    /\ attempts = Modules
    /\ loaded = {}
    /\ syncResult = "HTTPException"
    /\ ReadyAnnounced

\* C4: with DISCORD_TOKEN unset or empty, bot.start is never called and no
\* load, sync, Ready processing or presence update happens; main prints the
\* diagnostic before it returns.
C4_NoConnectionWithoutToken ==
    CredentialAbsent =>
        /\ startCalls = 0
        /\ attempts = << >>
        /\ syncCalls = 0
        /\ readyCount = 0
        /\ presenceCalls = 0
        /\ gateway = "down"
        /\ mainPc \in {"returned", "exited"} =>
              stdout = <<"Error: DISCORD_TOKEN environment variable not set!">>

\* C4's case: the variable is set to the empty string and the process ended.
C4_Witness ==
    /\ envToken = [set |-> TRUE, value |-> ""]
    /\ mainPc = "exited"
    /\ Len(stdout) = 1

\* C5: the missing credential is the only fatal startup condition, and a run
\* it aborts ends with a diagnostic and a non-zero exit status.
C5_MissingTokenExitsNonZero ==
    /\ (mainPc = "exited" /\ CredentialAbsent) =>
          (Len(stdout) > 0 /\ exitStatus # 0)
    /\ (mainPc = "exited" /\ ~CredentialAbsent) =>
          ~ \E k \in 1..Len(log) : log[k].level = "ERROR" /\ log[k].name = "root"

\* The spec's table of section 4.3: the template of each legacy kind.  The
\* cooldown is "formatted to 2 decimal places": a hundredth nearest to n/8.
NearestHundredths(n) ==
    {h \in 0..((100 * n) \div 8 + 1) :
        (8 * h - 100 * n) * 2 <= 8 /\ (100 * n - 8 * h) * 2 <= 8}

TableTemplates(kind, retry, text) ==
    IF kind = "MissingUserPermission"
    THEN {"You don't have permission to use this command."}
    ELSE IF kind = "MissingAgentPermission"
    THEN {"I don't have the required permissions to execute this command."}
    ELSE IF kind = "OnCooldown"
    THEN {"Command is on cooldown. Try again in " \o ToString(h \div 100) \o "."
              \o TwoDigits(h % 100) \o " seconds." : h \in NearestHundredths(retry)}
    ELSE IF kind = "MissingArgument"
    THEN {"Missing required argument: " \o BT \o text \o BT \o "."}
    ELSE IF kind = "BadArgument" THEN {"Invalid argument provided."}
    ELSE {"An unexpected error occurred."}

\* C6: every notification on_command_error sends carries the description the
\* spec's table gives for the kind of its event, trailing period included, and
\* the error color.
C6_DescriptionsMatchTable ==
    \A k \in 1..Len(sent) :
        LET ev == events[sent[k].event] IN
        ev.path = "legacy" =>
            /\ sent[k].embed.description \in TableTemplates(ev.kind, ev.retry, ev.text)
            /\ sent[k].embed.color = ColorError

\* C7: the step of on_command_error on a NotFound event sends nothing, logs
\* nothing and raises nothing, and no delivery attempt ever belongs to a
\* NotFound event.
C7_NotFoundIsSilent ==
    /\ [](\A k \in 1..Len(sent) : events[sent[k].event].kind # "NotFound")
    /\ [][\A i \in 1..Len(events) :
            (events[i].kind = "NotFound" /\ events[i].pc = "pending"
                /\ events'[i].pc # "pending")
            => (sent' = sent /\ log' = log /\ escaped' = escaped
                /\ events'[i].pc = "done")]_vars

\* C7's case: a NotFound event was handled after another event had filled the
\* history and the log.
C7_Witness ==
    \E i \in 1..Len(events) :
        /\ events[i].kind = "NotFound"
        /\ events[i].pc = "done"
        /\ Len(sent) = 1
        /\ Len(log) > Len(ConnectedLog)

AttemptsOf(i) == {k \in 1..Len(sent) : sent[k].event = i}

\* C8: on_app_command_error makes exactly one delivery attempt per event, and
\* the step that makes it sends a follow-up when the interaction has a
\* response at that moment and a primary response when it has none.
C8_DeliveryByResponseState ==
    /\ [](\A i \in 1..Len(events) :
            events[i].path = "interaction" =>
                Cardinality(AttemptsOf(i)) = IF events[i].pc = "pending" THEN 0 ELSE 1)
    /\ [][\A i \in 1..Len(events) :
            (events[i].path = "interaction" /\ events[i].pc = "pending"
                /\ events'[i].pc # "pending")
            => /\ Len(sent') = Len(sent) + 1
               /\ sent'[Len(sent')].event = i
               /\ sent'[Len(sent')].via =
                     IF responded[i] THEN "followup.send" ELSE "response.send_message"]_vars

\* C8's case: one interaction got a response after its error was dispatched
\* and was answered by a follow-up, another had none and was answered by a
\* primary response.
C8_Witness ==
    \E k1, k2 \in 1..Len(sent) :
        /\ sent[k1].via = "followup.send"
        /\ sent[k2].via = "response.send_message"
        /\ events[sent[k1].event].pc = "done"

\* C9: no exception leaves either error handler: whatever the send raises,
\* nothing reaches the client's scheduler or on_error, and the handler ends.
C9_HandlersNeverRaise ==
    /\ escaped = << >>
    /\ \A k \in 1..Len(log), o \in SendOutcomes :
          /\ log[k] # OnErrorRecord("on_command_error", o)
          /\ log[k] # OnErrorRecord("on_app_command_error", o)

\* C9's case: a send failed on the legacy path and one on the interaction
\* path, and both handlers ended.
C9_Witness ==
    \E i, j \in 1..Len(events) :
        /\ events[i].path = "legacy" /\ events[i].pc = "done" /\ events[i].result = "failed"
        /\ events[j].path = "interaction" /\ events[j].pc = "done"
        /\ events[j].result = "failed"

UnexpectedLogged(ev) ==
    IF ev.path = "legacy"
    THEN Logged(Error("AdvancedBot",
                      "Unexpected error in command " \o CommandName \o ": " \o ev.text))
    ELSE Logged(Error("AdvancedBot", "Unexpected error in slash command: " \o ev.text))

\* C10: an Unexpected event is logged at error severity with its detail as
\* soon as its handler has run, whatever becomes of the send, and what is
\* sent for it is the generic description, the same for every detail.
C10_UnexpectedIsLoggedNotShown ==
    /\ \A i \in 1..Len(events) :
          (events[i].kind = "Unexpected" /\ events[i].pc # "pending")
              => UnexpectedLogged(events[i])
    /\ \A k \in 1..Len(sent) :
          events[sent[k].event].kind = "Unexpected"
              => sent[k].embed.description = "An unexpected error occurred."
    /\ \A k1, k2 \in 1..Len(sent) :
          (events[sent[k1].event].kind = "Unexpected"
              /\ events[sent[k2].event].kind = "Unexpected")
              => sent[k1].embed = sent[k2].embed

\* C10's case: two Unexpected events with different details, one on each
\* path, the send of one of them failed.
C10_Witness ==
    \E i, j \in 1..Len(events) :
        /\ events[i].kind = "Unexpected" /\ events[j].kind = "Unexpected"
        /\ events[i].path = "legacy" /\ events[j].path = "interaction"
        /\ events[i].text # events[j].text
        /\ events[i].pc = "done" /\ events[i].result = "failed"
        /\ events[j].pc = "done"

\* The channel.send calls on_guild_join made for join j, as indices of joinSent.
JoinSendsOf(j) == {k \in 1..Len(joinSent) : joinSent[k].join = j}

\* The channels of a list the bot may send to.
Sendable(perms) == {i \in 1..Len(perms) : perms[i]}

\* C11: on a guild join the welcome goes to exactly the first text channel, in
\* the platform's order, in which the bot may send messages, and to no other
\* channel; when no channel qualifies (the empty list included) nothing is
\* sent and the join is still logged.
C11_FirstSendableChannelOnly ==
    \A j \in 1..Len(joins) :
        LET ok == Sendable(joins[j].perms) IN
        /\ joins[j].pc = "pending" => JoinSendsOf(j) = {}
        /\ joins[j].pc # "pending" /\ ok # {} =>
              /\ Cardinality(JoinSendsOf(j)) = 1
              /\ \A k \in JoinSendsOf(j) :
                    /\ joinSent[k].channel \in ok
                    /\ \A i \in ok : joinSent[k].channel <= i
                    /\ joinSent[k].embed = JoinEmbed(joins[j].id)
        /\ ok = {} =>
              /\ JoinSendsOf(j) = {}
              /\ joins[j].pc = "done" => Logged(JoinLog(joins[j].id))

\* A guild whose first channel is closed to the bot and whose next two are open
\* got its welcome in the second, and the join is logged.
C11_Witness ==
    \E j \in 1..Len(joins) :
        /\ joins[j].perms = <<FALSE, TRUE, TRUE>>
        /\ joins[j].pc = "done"
        /\ joinSent = <<[join |-> j, channel |-> 2, embed |-> JoinEmbed(joins[j].id)]>>
        /\ Logged(JoinLog(joins[j].id))

\* C12: however the welcome send of a guild join ends (it returns, it fails for
\* want of permission, it fails otherwise), the failure is dropped inside
\* on_guild_join: nothing leaves the handler and the join is logged.
C12_JoinAlwaysLogged ==
    /\ \A k \in 1..Len(escaped) : escaped[k].handler # "on_guild_join"
    /\ \A j \in 1..Len(joins) :
          joins[j].pc = "done" => Logged(JoinLog(joins[j].id))

\* C13: a failure of a sub-step of on_ready (the presence update among them) is
\* swallowed inside on_ready: no exception leaves the handler.
C13_ReadyFailuresSwallowed ==
    \A k \in 1..Len(escaped) : escaped[k].handler # "on_ready"

\* How often a record is in the log, and a phase among the phases entered.
TimesLogged(record) == Cardinality({k \in 1..Len(log) : log[k] = record})
TimesEntered(phase) == Cardinality({k \in 1..Len(phases) : phases[k] = phase})

\* C14: every READY of the gateway enters Ready once, and every entry makes
\* one readiness announcement (one embed, one log line) and one presence
\* update, of type watching and with the text "<guild count> servers", the
\* count being the one the announcement shows; a run with one READY has at
\* most one announcement, and no chat message is sent by the announcement.
C14_OneAnnouncementPerReady ==
    /\ [](/\ TimesEntered("Ready") = readyCount
          /\ Len(announced) = readyCount
          /\ TimesLogged(Info("AdvancedBot", "Bot is ready! Logged in as Aequitas"))
                = readyCount
          /\ presenceCalls = readyCount
          /\ readyCount <= 1 => Len(announced) <= 1
          /\ presence # << >> => presence[1].type = "watching"
          /\ sent = << >> /\ joinSent = << >>)
    /\ [][/\ presence' # presence =>
                /\ presence' = <<[type |-> "watching",
                                  name |-> ToString(guildCount) \o " servers"]>>
                /\ announced[Len(announced)].fields[1].value = ToString(guildCount)
          /\ readyCount' # readyCount =>
                /\ readyCount' = readyCount + 1
                /\ Len(announced') = Len(announced) + 1
                /\ presenceCalls' = presenceCalls + 1]_vars

\* Two READY events were handled, each announced, the second with three
\* guilds, and the presence shows them.
C14_Witness ==
    /\ readyCount = 2
    /\ readyPc = "idle"
    /\ Len(announced) = 2
    /\ presenceCalls = 2
    /\ presence = <<[type |-> "watching", name |-> "3 servers"]>>

\* C15: every error event handed to on_app_command_error, of whatever kind, is
\* eventually followed by a delivery attempt for that interaction, and every
\* event handed to on_command_error other than a CommandNotFound is eventually
\* followed by a send attempt; in both cases the handler then ends.
C15_EveryEventAnswered ==
    \A i \in 1..MaxEvents :
        (Len(events) >= i /\ ~(events[i].path = "legacy" /\ events[i].kind = "NotFound"))
            ~> (/\ \E k \in 1..Len(sent) :
                      /\ sent[k].event = i
                      /\ sent[k].via \in IF events[i].path = "legacy" THEN {"ctx.send"}
                                         ELSE {"response.send_message", "followup.send"}
                /\ events[i].pc = "done")

\* An Unexpected error of an interaction and a BadArgument of a prefix command
\* were both answered with an attempt.
C15_Witness ==
    \E i, j \in 1..Len(events) :
        /\ events[i].path = "interaction" /\ events[i].kind = "Unexpected"
        /\ events[j].path = "legacy" /\ events[j].kind = "BadArgument"
        /\ events[i].pc = "done" /\ events[j].pc = "done"
        /\ \E k1, k2 \in 1..Len(sent) : sent[k1].event = i /\ sent[k2].event = j

\* The description the handler of an event's path gives an error of the event's
\* kind, from the event's own data.
OwnDescription(ev) ==
    IF ev.path = "legacy" THEN LegacyDescription(ev.kind, ev.retry, ev.text)
    ELSE AppDescription(ev.kind, ev.retry, ev.text)

\* C16: when the handlers of several error events interleave at their sends,
\* each works on its own event only: the notification sent for an event
\* carries the description of that event's kind and data and goes out by the
\* send of that event's origin, and a step of one event's handler changes no
\* other event, no other interaction's response state, and nothing already
\* sent.
C16_HandlersAreIndependent ==
    /\ [](\A k \in 1..Len(sent) :
            LET ev == events[sent[k].event] IN
            /\ sent[k].embed = ErrorEmbed(OwnDescription(ev))
            /\ ev.path = "legacy" <=> sent[k].via = "ctx.send"
            /\ \A k2 \in 1..Len(sent) : sent[k2].event = sent[k].event => k2 = k)
    /\ [][\A i \in 1..Len(events) :
            events'[i] # events[i] =>
                /\ \A j \in 1..Len(events) :
                      j # i => events'[j] = events[j] /\ responded'[j] = responded[j]
                /\ events'[i].path = events[i].path /\ events'[i].kind = events[i].kind
                /\ events'[i].retry = events[i].retry /\ events'[i].text = events[i].text
                /\ IsPrefix(sent, sent')
                /\ \A k \in (Len(sent) + 1)..Len(sent') : sent'[k].event = i]_vars

\* Two handlers are suspended at their sends at the same time, for errors of
\* different kinds, one on each path.
C16_Witness ==
    \E i, j \in 1..Len(events) :
        /\ events[i].pc = "sending" /\ events[j].pc = "sending"
        /\ events[i].path = "legacy" /\ events[j].path = "interaction"
        /\ events[i].kind = "OnCooldown" /\ events[j].kind = "Unexpected"
        /\ i < j
        /\ sent[1].event = j

\* The log lines load_extensions wrote about a module.
LoadLinesOf(m) ==
    {k \in 1..Len(log) :
        \/ log[k] = Info("AdvancedBot", "Loaded " \o m)
        \/ /\ log[k].level = "ERROR"
           /\ Len(log[k].msg) >= Len("Failed to load " \o m \o ": ")
           /\ \E d \in {LoadErrorText(kind, m) : kind \in LoadFailureKinds} :
                 log[k].msg = "Failed to load " \o m \o ": " \o d}

\* C17: load_extensions reports one result per module, in the order of the
\* list (one log line per module attempted, six once the loop is done), and
\* the line of a module that did not load carries a non-empty error detail,
\* whatever the text of the exception raised.
C17_EveryFailureHasDetail ==
    /\ \A i \in 1..Len(attempts) : Cardinality(LoadLinesOf(attempts[i])) = 1
    /\ \A i, j \in 1..Len(attempts) :
          i < j => \A a \in LoadLinesOf(attempts[i]), b \in LoadLinesOf(attempts[j]) : a < b
    /\ \A i \in 1..Len(attempts) :
          attempts[i] \notin loaded =>
              \A k \in LoadLinesOf(attempts[i]) :
                  /\ log[k].level = "ERROR"
                  /\ Len(log[k].msg) > Len("Failed to load " \o attempts[i] \o ": ")

\* C18: whenever bot.start ends with an interrupt or with another exception,
\* bot.close is called exactly once and main ends without raising; bot.close is
\* never called when bot.start was not.
C18_StartFailureClosesOnce ==
    /\ startCalls = 0 => closeCalls = 0
    /\ closeCalls <= 1
    /\ mainPc # "raised"
    /\ (exc # "" /\ mainPc \in {"returned", "exited"}) => closeCalls = 1
    /\ (exc # "" /\ mainPc = "exited") => exitStatus = 0

\* The kinds each handler answers with a fixed message of its own.
ClassifiedKinds(path) ==
    IF path = "legacy"
    THEN {"MissingUserPermission", "MissingAgentPermission", "OnCooldown", "MissingArgument",
          "BadArgument"}
    ELSE {"MissingUserPermission", "MissingAgentPermission", "OnCooldown"}

\* The Unexpected events whose handler has passed its classification.
UnexpectedHandled ==
    {i \in 1..Len(events) : events[i].kind = "Unexpected" /\ events[i].pc # "pending"}

\* C19: an error of a classified kind (permission, cooldown and argument shape
\* on the legacy path; permission and cooldown on the interaction path) is
\* never logged: every step of the handler of such an event leaves the log as
\* it is, and what the handlers add to the log are the two error-severity
\* records of each Unexpected event.
C19_ClassifiedNeverLogged ==
    /\ [](/\ Len(log) = Len(ConnectedLog) + 2 * Cardinality(UnexpectedHandled)
          /\ \A k \in (Len(ConnectedLog) + 1)..Len(log) : log[k].level = "ERROR")
    /\ [][\A i \in 1..Len(events) :
            (events'[i] # events[i] /\ events[i].kind \in ClassifiedKinds(events[i].path))
                => log' = log]_vars

\* A MissingArgument of a prefix command and a cooldown of an interaction were
\* handled, the second with a failed send, and the log is the one of the
\* startup.
C19_Witness ==
    \E i, j \in 1..Len(events) :
        /\ events[i].path = "legacy" /\ events[i].kind = "MissingArgument"
        /\ events[j].path = "interaction" /\ events[j].kind = "OnCooldown"
        /\ events[i].pc = "done" /\ events[j].pc = "done"
        /\ events[j].result = "failed"
        /\ Len(sent) = 2
        /\ log = ConnectedLog

\* C20: nothing is retried: each module load is attempted at most once, the
\* command sync at most once per startup, and each command-error event and
\* each guild join causes at most one send attempt, also when that attempt
\* failed; a handler that has ended never runs again.
C20_NoRetry ==
    /\ [](/\ \A i, j \in 1..Len(attempts) : attempts[i] = attempts[j] => i = j
          /\ syncCalls <= 1
          /\ \A i \in 1..Len(events) : Cardinality(AttemptsOf(i)) <= 1
          /\ \A j \in 1..Len(joins) : Cardinality(JoinSendsOf(j)) <= 1)
    /\ [][/\ \A i \in 1..Len(events) : events[i].pc = "done" => events'[i] = events[i]
          /\ \A j \in 1..Len(joins) : joins[j].pc = "done" => joins'[j] = joins[j]
          /\ hook \in {"done", "raised", "aborted"} =>
                attempts' = attempts /\ syncCalls' = syncCalls]_vars

\* After a startup that tried every module and synced once, a send for a
\* command error failed and its handler ended with that one attempt.
C20_Witness ==
    /\ attempts = Modules
    /\ syncCalls = 1
    /\ \E i \in 1..Len(events) :
          /\ events[i].pc = "done"
          /\ events[i].result = "failed"
          /\ Cardinality(AttemptsOf(i)) = 1


====
